---- MODULE Spec2Model ----
(***************************************************************************)
(* Model of the spreadsheet client of SakuLife/ebay-research-system:       *)
(*   - onResearchButtonClick / triggerGitHubActions / waitForCompletion    *)
(*     (the Apps Script listed in README.md),                              *)
(*   - runResearchForSelectedRow / triggerGitHubActions (gas/Code.gs, two  *)
(*     revisions in one file),                                             *)
(*   - recalculateProfitFromSelection (the profit recalculation script),   *)
(*   - the dispatched run as far as it shows on the input sheet, and the   *)
(*     selection of the cheapest sourcing offer.                           *)
(* Every handler is split at its spreadsheet and network calls, because    *)
(* Apps Script executions of different users run in parallel and each      *)
(* call is a separate round trip to the shared spreadsheet.                *)
(* Japanese string literals of the source are transliterated: TLA+ strings *)
(* are ASCII.                                                              *)
(***************************************************************************)
EXTENDS Integers, FiniteSets, Sequences, TLC

VARIABLES
    inputSheet,   \* the input sheet: [row -> [column -> cell value]]
    calcSheet,    \* the calculation sheet: [A1 name -> cell content]
    pc,           \* position of each script execution
    local,        \* local variables of each script execution
    alert,        \* the dialog shown by the latest script step, or "none"
    dispatched,   \* client_payload of every repository_dispatch POSTed
    runs,         \* per row: accepted dispatches whose run has not finished
    recalcs,      \* recalculations that passed their input checks so far
    evaluated,    \* the inputs the calculation sheet's formulas last ran on
    offers,       \* the sourcing offers of the search, in provider order
    selected,     \* the offer the search returned, or NoOffer
    settingsSheet \* the keyword column of the settings sheet, or NoSheet

vars == <<inputSheet, calcSheet, pc, local, alert, dispatched, runs, recalcs,
          evaluated, offers, selected, settingsSheet>>

----------------------------------------------------------------------------
(* Bounds of the model *)

MaxRow == 4          \* rows 1..MaxRow; row 1 is the header
MaxRuns == 2         \* accepted dispatches per row that may be pending at once
MaxRecalcs == 2      \* recalculations that get past their input checks
Scale == 2           \* numbers are fixed-point with Scale steps per unit
MaxOffers == 3       \* offers per search
MaxPrice == 2        \* source prices 0..MaxPrice
MaxShipping == 1     \* source shippings 0..MaxShipping

Procs == {"e1", "e2"}            \* concurrently running script executions
Rows == 1..MaxRow
DataRows == 2..MaxRow

----------------------------------------------------------------------------
(* Cell values.  A cell is empty, a text or a number (in 1/Scale units). *)

Empty == [kind |-> "empty", txt |-> "", num |-> 0]
Text(s) == [kind |-> "text", txt |-> s, num |-> 0]
Num(n) == [kind |-> "number", txt |-> "", num |-> n]
Whole(n) == Num(n * Scale)

\* JavaScript truthiness of a cell value: "" and 0 are falsy.
Truthy(v) == \/ v.kind = "text" /\ v.txt # ""
             \/ v.kind = "number" /\ v.num # 0

----------------------------------------------------------------------------
(* Constants of the scripts *)

INPUT_SHEET_NAME == "nyuuryoku-sheet"      \* '入力シート'
OTHER_SHEET_NAME == "kensaku-base"         \* '検索ベース'
SheetNames == {INPUT_SHEET_NAME, OTHER_SHEET_NAME}

UrlCol == 2                \* B: eBay URL
StatusColAF == 32          \* AF: status column of onResearchButtonClick
LogColAH == 34             \* AH: log column written by the dispatched run
statusCol == 19            \* S: status column of runResearchForSelectedRow
memoCol == 20              \* T: memo column of runResearchForSelectedRow
statusColumn == 22         \* V: status column of setupConditionalFormatting
COL_SELL_PRICE == 15       \* P (0-based index)
COL_SHIPPING == 16         \* Q
COL_PROFIT_NO_REBATE == 17     \* R
COL_MARGIN_NO_REBATE == 18     \* S
COL_PROFIT_WITH_REBATE == 19   \* T
COL_MARGIN_WITH_REBATE == 20   \* U
HTTP_NO_CONTENT == 204
MAX_ATTEMPTS == 36

Cols == {UrlCol, COL_SELL_PRICE + 1, COL_SHIPPING + 1,
         COL_PROFIT_NO_REBATE + 1, COL_MARGIN_NO_REBATE + 1,
         COL_PROFIT_WITH_REBATE + 1, COL_MARGIN_WITH_REBATE + 1,
         statusCol, memoCol, StatusColAF, LogColAH}

\* Status markers.
ProcessingAF == "shori-chu..."     \* '処理中...' (README script, Python run)
ProcessingS == "shori-chu"         \* '処理中'    (gas/Code.gs)
NeedsReview == "you-kakunin"       \* '要確認'    (done)
ErrorStatus == "error"             \* 'エラー'
OkStatus == "OK"                   \* 'OK'       (conditional formatting)
ExcludedStatus == "jogai"          \* '除外'     (conditional formatting)
EbayUrlOf(r) == "https://www.ebay.com/itm/" \o ToString(r)

----------------------------------------------------------------------------
(* Spreadsheet primitives *)

\* Range.getValue() of one cell of the input sheet.
getValue(sheet, r, c) == sheet[r][c]

\* Range.setValue(v) on one cell of the input sheet.
setValue(sheet, r, c, v) == [sheet EXCEPT ![r][c] = v]

----------------------------------------------------------------------------
(* Script executions *)

NoLocal == [row |-> 0, ebayUrl |-> Empty, attempt |-> 0,
            rev |-> "", error |-> "", step |-> 0,
            sourcePrice |-> 0, sellPrice |-> 0, shipping |-> 0,
            profitNoRebate |-> Empty, marginNoRebate |-> Empty,
            profitWithRebate |-> Empty, marginWithRebate |-> Empty]

\* An execution ends: it shows its last dialog and its locals are gone.
Finish(p, dialog) ==
    /\ pc' = [pc EXCEPT ![p] = "idle"]
    /\ local' = [local EXCEPT ![p] = NoLocal]
    /\ alert' = dialog

\* An execution moves on to position q with locals l.
Goto(p, q, l) ==
    /\ pc' = [pc EXCEPT ![p] = q]
    /\ local' = [local EXCEPT ![p] = l]
    /\ alert' = "none"

\* What UrlFetchApp.fetch can do: throw, or return a response code.
ResponseCodes == {HTTP_NO_CONTENT, 401, 404}
FetchOutcomes == {[threw |-> TRUE, code |-> 0]}
                 \cup {[threw |-> FALSE, code |-> c] : c \in ResponseCodes}

\* GitHub accepts a dispatch (204) only while the row's pending runs are
\* below the bound of the model.
FetchAllowed(r, fetch) ==
    (~fetch.threw /\ fetch.code = HTTP_NO_CONTENT) => runs[r] < MaxRuns

----------------------------------------------------------------------------
(* README.md: the Apps Script of the polling client *)

\* triggerGitHubActions(ebayUrl, rowNumber): TRUE exactly on a 204 response;
\* missing script properties and a throwing fetch give FALSE.
triggerGitHubActionsProps(configured, fetch) ==
    IF ~configured THEN FALSE
    ELSE IF fetch.threw THEN FALSE
    ELSE fetch.code = HTTP_NO_CONTENT

\* The client_payload of the README script's dispatch.
\* spreadsheet_id is the id of the one spreadsheet; timestamp is new Date()
\* as an ISO string.  The clock is not modelled: every dispatch reads the same
\* instant.
SPREADSHEET_ID == "active-spreadsheet-id"
Timestamps == {"2026-01-01T00:00:00.000Z"}
PayloadProps(ebayUrl, rowNumber, now) ==
    [event_type |-> "research_request", ebay_url |-> ebayUrl.txt,
     row_number |-> rowNumber, timestamp |-> now,
     spreadsheet_id |-> SPREADSHEET_ID]

\* A guard that lets every status through.
AlreadyProcessing_NoGuard(currentStatus) == FALSE

\* The guard of onResearchButtonClick on the row's current status.
AlreadyProcessing(currentStatus) == currentStatus = Text(ProcessingAF)

\* onResearchButtonClick up to the confirmation dialog: sheet name, header
\* row, URL cell and status cell are checked; nothing is written.
Click_Start(p, sheetName, row) ==
    /\ pc[p] = "idle"
    /\ UNCHANGED <<inputSheet, calcSheet, dispatched, runs, recalcs, evaluated, offers, selected, settingsSheet>>
    /\ IF sheetName # INPUT_SHEET_NAME THEN Finish(p, "not-input-sheet")
       ELSE IF row = 1 THEN Finish(p, "header-row")
       ELSE LET ebayUrl == getValue(inputSheet, row, UrlCol)
                currentStatus == getValue(inputSheet, row, StatusColAF)
            IN  IF ~Truthy(ebayUrl) THEN Finish(p, "no-url")
                ELSE IF AlreadyProcessing(currentStatus)
                     THEN Finish(p, "already-processing")
                ELSE Goto(p, "confirm",
                          [NoLocal EXCEPT !.row = row, !.ebayUrl = ebayUrl])

\* A dialog whose answer is not looked at.
Click_Confirm_IgnoresAnswer(p, ok) ==
    /\ pc[p] = "confirm"
    /\ UNCHANGED <<inputSheet, calcSheet, dispatched, runs, recalcs, evaluated,
                   offers, selected, settingsSheet>>
    /\ Goto(p, "setProcessing", local[p])

\* The confirmation dialog returns.
Click_Confirm(p, ok) ==
    /\ pc[p] = "confirm"
    /\ UNCHANGED <<inputSheet, calcSheet, dispatched, runs, recalcs, evaluated, offers, selected, settingsSheet>>
    /\ IF ok THEN Goto(p, "setProcessing", local[p])
       ELSE Finish(p, "cancelled")

\* try { setValue('処理中...'); flush()
Click_SetProcessing(p) ==
    /\ pc[p] = "setProcessing"
    /\ inputSheet' = setValue(inputSheet, local[p].row, StatusColAF,
                              Text(ProcessingAF))
    /\ Goto(p, "trigger", local[p])
    /\ UNCHANGED <<calcSheet, dispatched, runs, recalcs, evaluated, offers, selected, settingsSheet>>

\* A failure branch that shows the dialog without writing the status.
Click_Trigger_NoErrorWrite(p, configured, fetch, now) ==
    /\ pc[p] = "trigger"
    /\ FetchAllowed(local[p].row, fetch)
    /\ LET row == local[p].row
           triggered == triggerGitHubActionsProps(configured, fetch)
           posted == configured /\ ~fetch.threw
       IN  /\ dispatched' = IF posted
                THEN dispatched \cup {PayloadProps(local[p].ebayUrl, row, now)}
                ELSE dispatched
           /\ UNCHANGED inputSheet
           /\ IF triggered
              THEN /\ runs' = [runs EXCEPT ![row] = @ + 1]
                   /\ Goto(p, "poll", [local[p] EXCEPT !.attempt = 1])
              ELSE /\ UNCHANGED runs
                   /\ Finish(p, "trigger-failed")
    /\ UNCHANGED <<calcSheet, recalcs, evaluated, offers, selected, settingsSheet>>

\* triggerGitHubActions and the branch on its result.
Click_Trigger(p, configured, fetch, now) ==
    /\ pc[p] = "trigger"
    /\ FetchAllowed(local[p].row, fetch)
    /\ LET row == local[p].row
           triggered == triggerGitHubActionsProps(configured, fetch)
           posted == configured /\ ~fetch.threw
       IN  /\ dispatched' = IF posted
                THEN dispatched \cup {PayloadProps(local[p].ebayUrl, row, now)}
                ELSE dispatched
           /\ IF triggered
              THEN /\ runs' = [runs EXCEPT ![row] = @ + 1]
                   /\ UNCHANGED inputSheet
                   /\ Goto(p, "poll", [local[p] EXCEPT !.attempt = 1])
              ELSE /\ inputSheet' = setValue(inputSheet, row, StatusColAF,
                                             Text(ErrorStatus))
                   /\ UNCHANGED runs
                   /\ Finish(p, "trigger-failed")
    /\ UNCHANGED <<calcSheet, recalcs, evaluated, offers, selected, settingsSheet>>

\* Utilities.sleep(INTERVAL) at the top of a round of waitForCompletion: the
\* round's interval has passed (step = 1) before its read.
Click_Sleep(p) ==
    /\ pc[p] = "poll"
    /\ local[p].step = 0
    /\ Goto(p, "poll", [local[p] EXCEPT !.step = 1])
    /\ UNCHANGED <<inputSheet, calcSheet, dispatched, runs, recalcs, evaluated,
                   offers, selected, settingsSheet>>

\* A loop that does not return when the status has left processing.
Click_Poll_NoExit(p) ==
    /\ pc[p] = "poll"
    /\ local[p].step = 1
    /\ UNCHANGED <<inputSheet, calcSheet, dispatched, runs, recalcs, evaluated,
                   offers, selected, settingsSheet>>
    /\ IF local[p].attempt < MAX_ATTEMPTS
       THEN Goto(p, "poll", [local[p] EXCEPT !.attempt = @ + 1, !.step = 0])
       ELSE Finish(p, "timeout")

\* A timeout that marks the row as failed.
Click_Poll_HardTimeout(p) ==
    /\ pc[p] = "poll"
    /\ local[p].step = 1
    /\ UNCHANGED <<calcSheet, dispatched, runs, recalcs, evaluated, offers,
                   selected, settingsSheet>>
    /\ LET status == getValue(inputSheet, local[p].row, StatusColAF)
       IN  IF status # Text(ProcessingAF)
           THEN UNCHANGED inputSheet /\ Goto(p, "report", local[p])
           ELSE IF local[p].attempt < MAX_ATTEMPTS
                THEN /\ UNCHANGED inputSheet
                     /\ Goto(p, "poll",
                             [local[p] EXCEPT !.attempt = @ + 1, !.step = 0])
           ELSE /\ inputSheet' = setValue(inputSheet, local[p].row, StatusColAF,
                                          Text(ErrorStatus))
                /\ Finish(p, "timeout")

\* A round that reads the status without having waited.
Click_Poll_ReadsFirst(p) ==
    /\ pc[p] = "poll"
    /\ UNCHANGED <<inputSheet, calcSheet, dispatched, runs, recalcs, evaluated,
                   offers, selected, settingsSheet>>
    /\ LET status == getValue(inputSheet, local[p].row, StatusColAF)
       IN  IF status # Text(ProcessingAF) THEN Goto(p, "report", local[p])
           ELSE IF local[p].attempt < MAX_ATTEMPTS
                THEN Goto(p, "poll",
                          [local[p] EXCEPT !.attempt = @ + 1, !.step = 0])
           ELSE Finish(p, "timeout")

\* One round of waitForCompletion after its sleep: read the status, compare;
\* the next round starts with its sleep still to come.
Click_Poll(p) ==
    /\ pc[p] = "poll"
    /\ local[p].step = 1
    /\ UNCHANGED <<inputSheet, calcSheet, dispatched, runs, recalcs, evaluated, offers, selected, settingsSheet>>
    /\ LET status == getValue(inputSheet, local[p].row, StatusColAF)
       IN  IF status # Text(ProcessingAF) THEN Goto(p, "report", local[p])
           ELSE IF local[p].attempt < MAX_ATTEMPTS
                THEN Goto(p, "poll",
                          [local[p] EXCEPT !.attempt = @ + 1, !.step = 0])
           ELSE Finish(p, "timeout")

\* completed: the final status is read and reported.
Click_Report(p) ==
    /\ pc[p] = "report"
    /\ UNCHANGED <<inputSheet, calcSheet, dispatched, runs, recalcs, evaluated, offers, selected, settingsSheet>>
    /\ LET finalStatus == getValue(inputSheet, local[p].row, StatusColAF)
       IN  IF finalStatus = Text(NeedsReview) THEN Finish(p, "completed")
           ELSE IF finalStatus = Text(ErrorStatus) THEN Finish(p, "run-error")
           ELSE Finish(p, "completed-other")

\* Any call inside the try block throws.
Click_Throw(p) ==
    /\ pc[p] \in {"setProcessing", "trigger", "poll", "report"}
    /\ Goto(p, "catch", local[p])
    /\ UNCHANGED <<inputSheet, calcSheet, dispatched, runs, recalcs, evaluated, offers, selected, settingsSheet>>

\* catch (error) { setValue('エラー'); msgBox }
Click_Catch(p) ==
    /\ pc[p] = "catch"
    /\ inputSheet' = setValue(inputSheet, local[p].row, StatusColAF,
                              Text(ErrorStatus))
    /\ Finish(p, "exception")
    /\ UNCHANGED <<calcSheet, dispatched, runs, recalcs, evaluated, offers, selected, settingsSheet>>

----------------------------------------------------------------------------
(* The dispatched run (GitHub Actions, Python): it reports through the     *)
(* status column AF and the log column AH of its row.                      *)

\* What a run reports: that it started, that it completed with a profit
\* result, that no sourcing provider returned an offer, or that it failed.
RunnerOutcomes == {"started", "completed", "no-sourcing", "failed"}

\* An empty sourcing result reported as a failure.
OutcomeStatus_EmptyIsError(outcome) ==
    IF outcome = "started" THEN ProcessingAF
    ELSE IF outcome = "completed" THEN NeedsReview
    ELSE ErrorStatus

\* The status of an outcome: an empty sourcing result is a valid result of
\* the run (done), only a failure is an error.
OutcomeStatus(outcome) ==
    IF outcome = "started" THEN ProcessingAF
    ELSE IF outcome = "failed" THEN ErrorStatus
    ELSE NeedsReview

NO_SOURCING_FOUND == "no sourcing found"

RunnerLog(outcome) ==
    IF outcome = "started" THEN "Started processing"
    ELSE IF outcome = "completed" THEN "Completed successfully"
    ELSE IF outcome = "no-sourcing" THEN NO_SOURCING_FOUND
    ELSE "cause of the failure"

\* update_status(sheets_client, row_number, status, log)
update_status(sheet, r, status, log) ==
    setValue(setValue(sheet, r, StatusColAF, Text(status)),
             r, LogColAH, Text(log))

\* The run of an accepted dispatch reports an outcome on its row; every
\* outcome but "started" ends the run.
Runner(r, outcome) ==
    /\ runs[r] > 0
    /\ inputSheet' = update_status(inputSheet, r, OutcomeStatus(outcome),
                                   RunnerLog(outcome))
    /\ runs' = IF outcome = "started" THEN runs
               ELSE [runs EXCEPT ![r] = @ - 1]
    /\ UNCHANGED <<calcSheet, pc, local, alert, dispatched, recalcs, evaluated,
                   offers, selected, settingsSheet>>

----------------------------------------------------------------------------
(* gas/Code.gs: runResearchForSelectedRow, in the file's two revisions.    *)
(* "result": lines 104-159 and 225-284 (triggerGitHubActions returns       *)
(* {success, error}); "bool": lines 331-367 and 372-411 (it returns a      *)
(* boolean and there is no token check).                                   *)

Revisions == {"result", "bool"}
TOKEN_PLACEHOLDER == "YOUR_GITHUB_PERSONAL_ACCESS_TOKEN"
GITHUB_TOKEN == "REDACTED_TOKEN"
Tokens == {TOKEN_PLACEHOLDER, GITHUB_TOKEN}

\* A test that takes every answer but 401 for a success.
triggerGitHubActionsBool_Not401(fetch) ==
    IF fetch.threw THEN FALSE ELSE fetch.code # 401

\* triggerGitHubActions(ebayUrl, rowNumber) of revision "bool".
triggerGitHubActionsBool(fetch) ==
    IF fetch.threw THEN FALSE ELSE fetch.code = HTTP_NO_CONTENT

\* triggerGitHubActions(ebayUrl, rowNumber) of revision "result".
triggerGitHubActions(fetch) ==
    IF fetch.threw
    THEN [success |-> FALSE, error |-> "network error: Exception"]
    ELSE IF fetch.code = HTTP_NO_CONTENT
    THEN [success |-> TRUE, error |-> ""]
    ELSE [success |-> FALSE, error |-> "HTTP status: " \o ToString(fetch.code)]

\* A payload that names the row below.
Payload_NextRow(ebayUrl, rowNumber) ==
    [event_type |-> "research_request", ebay_url |-> ebayUrl.txt,
     row_number |-> rowNumber + 1]

\* The client_payload of Code.gs's dispatch.
Payload(ebayUrl, rowNumber) ==
    [event_type |-> "research_request", ebay_url |-> ebayUrl.txt,
     row_number |-> rowNumber]

\* runResearchForSelectedRow up to and including setValue('処理中').  Neither
\* revision reads the status cell; only revision "result" checks the token.
Run_Start(p, rev, token, activeRow) ==
    /\ pc[p] = "idle"
    /\ UNCHANGED <<calcSheet, dispatched, runs, recalcs, evaluated, offers, selected, settingsSheet>>
    /\ IF activeRow = 1
       THEN UNCHANGED inputSheet /\ Finish(p, "header-row")
       ELSE IF rev = "result" /\ token = TOKEN_PLACEHOLDER
       THEN UNCHANGED inputSheet /\ Finish(p, "no-token")
       ELSE LET ebayUrl == getValue(inputSheet, activeRow, UrlCol)
            IN  IF ~Truthy(ebayUrl)
                THEN UNCHANGED inputSheet /\ Finish(p, "no-url")
                ELSE /\ inputSheet' = setValue(inputSheet, activeRow, statusCol,
                                               Text(ProcessingS))
                     /\ Goto(p, "runTrigger",
                             [NoLocal EXCEPT !.row = activeRow, !.rev = rev,
                                             !.ebayUrl = ebayUrl])

\* triggerGitHubActions and the branch on its result; on failure the status
\* cell is set to 'エラー'.
Run_Trigger(p, fetch) ==
    /\ pc[p] = "runTrigger"
    /\ FetchAllowed(local[p].row, fetch)
    /\ LET row == local[p].row
           result == triggerGitHubActions(fetch)
           success == IF local[p].rev = "bool"
                      THEN triggerGitHubActionsBool(fetch) ELSE result.success
       IN  /\ dispatched' = IF fetch.threw THEN dispatched
                ELSE dispatched \cup {Payload(local[p].ebayUrl, row)}
           /\ IF success
              THEN /\ runs' = [runs EXCEPT ![row] = @ + 1]
                   /\ UNCHANGED inputSheet
                   /\ Finish(p, "started")
              ELSE /\ inputSheet' = setValue(inputSheet, row, statusCol,
                                             Text(ErrorStatus))
                   /\ UNCHANGED runs
                   /\ IF local[p].rev = "result"
                      THEN Goto(p, "runMemo", [local[p] EXCEPT !.error = result.error])
                      ELSE Finish(p, "trigger-failed")
    /\ UNCHANGED <<calcSheet, recalcs, evaluated, offers, selected, settingsSheet>>

\* Revision "result" only: the cause goes to the memo cell.
Run_SetMemo(p) ==
    /\ pc[p] = "runMemo"
    /\ inputSheet' = setValue(inputSheet, local[p].row, memoCol,
                              Text("GitHub Actions launch failed: " \o local[p].error))
    /\ Finish(p, "trigger-failed")
    /\ UNCHANGED <<calcSheet, dispatched, runs, recalcs, evaluated, offers, selected, settingsSheet>>

----------------------------------------------------------------------------
(* The calculation sheet 検索ベース *)

\* B10, C10, D10 are input cells; E10 and J10 hold formulas; P10, Q10, P13,
\* Q13 hold the formulas of the results.
InputCells == {"B10", "C10", "D10"}
FormulaCells == {"E10", "J10"}
OutputCells == {"P10", "Q10", "P13", "Q13"}
CalcCells == InputCells \cup FormulaCells \cup OutputCells
Formula == [kind |-> "formula", txt |-> "=", num |-> 0]

\* Range.setValue on the calculation sheet: the cell's content is replaced.
setCalcValue(sheet, cell, v) == [sheet EXCEPT ![cell] = v]

\* The sheet's formulas, in fixed-point: the sell price and the shipping are
\* converted at FxRate, the fee is FeePct of the converted sell price, the
\* rebate is RebatePct of the source price.
FxRate == 2
FeePct == 25
RebatePct == 10
SellLocal(sheet) == sheet["C10"].num * FxRate
ProfitNoRebate(sheet) ==
    SellLocal(sheet) - sheet["B10"].num - ((SellLocal(sheet) * FeePct) \div 100)
        - sheet["D10"].num * FxRate
Rebate(sheet) == (sheet["B10"].num * RebatePct) \div 100
MarginOf(profit, sheet) ==
    IF SellLocal(sheet) = 0 THEN Text("#DIV/0!")
    ELSE Num((profit * 100 * Scale) \div SellLocal(sheet))

\* Range.getValue on the calculation sheet: a formula cell gives its value
\* for the inputs the sheet holds at that moment.
getCalcValue(sheet, cell) ==
    IF sheet[cell].kind # "formula" THEN sheet[cell]
    ELSE IF cell = "P10" THEN Num(ProfitNoRebate(sheet))
    ELSE IF cell = "Q10" THEN MarginOf(ProfitNoRebate(sheet), sheet)
    ELSE IF cell = "P13" THEN Num(ProfitNoRebate(sheet) + Rebate(sheet))
    ELSE IF cell = "Q13" THEN MarginOf(ProfitNoRebate(sheet) + Rebate(sheet), sheet)
    ELSE Num(0)

\* The input cells of the sheet.
InputsOf(sheet) == [c \in InputCells |-> sheet[c]]

\* The sheet as its formulas last ran on it: the output cells show the values
\* for these inputs until the spreadsheet recalculates.
EvaluatedSheet ==
    [c \in CalcCells |-> IF c \in InputCells THEN evaluated[c] ELSE calcSheet[c]]

\* The spreadsheet recalculates: the formulas run on the inputs the sheet
\* holds now.  The scripts do not learn when this has happened; they flush and
\* sleep a fixed time.
Sheet_Recalculate ==
    /\ evaluated # InputsOf(calcSheet)
    /\ evaluated' = InputsOf(calcSheet)
    /\ UNCHANGED <<inputSheet, calcSheet, pc, local, alert, dispatched, runs,
                   recalcs, offers, selected, settingsSheet>>

----------------------------------------------------------------------------
(* recalculateProfitFromSelection *)

NaN == [nan |-> TRUE, val |-> 0]
Number(n) == [nan |-> FALSE, val |-> n]

\* String(selectedValue).replace(/[¥,]/g, ''): the yen sign (written "Y")
\* and the commas are dropped.
StripYenComma(chars) == SelectSeq(chars, LAMBDA ch : ch \notin {"Y", ","})

Digits == {"0", "1", "2", "3"}
DigitValue(ch) == CHOOSE n \in 0..3 : ToString(n) = ch

\* The length of the longest prefix of chars that consists of digits.
RECURSIVE DigitPrefix(_)
DigitPrefix(chars) ==
    IF chars = <<>> \/ Head(chars) \notin Digits THEN 0
    ELSE 1 + DigitPrefix(Tail(chars))

RECURSIVE DecimalValue(_, _)
DecimalValue(chars, acc) ==
    IF chars = <<>> THEN acc
    ELSE DecimalValue(Tail(chars), 10 * acc + DigitValue(Head(chars)))

\* parseFloat of a character sequence: an optional sign, then the longest
\* run of digits; NaN when there is no digit.  The rest is ignored.
parseFloatChars(chars) ==
    LET neg == chars # <<>> /\ Head(chars) = "-"
        body == IF neg THEN Tail(chars) ELSE chars
        n == DigitPrefix(body)
    IN  IF n = 0 THEN NaN
        ELSE LET v == DecimalValue(SubSeq(body, 1, n), 0) * Scale
             IN  Number(IF neg THEN 0 - v ELSE v)

\* parseFloat(String(v)) of a cell value: a number cell round-trips, an
\* empty cell gives NaN.
parseFloatCell(v) ==
    IF v.kind = "number" THEN Number(v.num)
    ELSE IF v.kind = "chars" THEN parseFloatChars(StripYenComma(v.chars))
    ELSE NaN

\* parseFloat(x) || 0
OrZero(n) == IF n.nan THEN 0 ELSE n.val

\* Math.round of a value read from a cell: floor(x + 1/2), 0 for an empty
\* cell, NaN for a text.
MathRound(v) ==
    IF v.kind = "number" THEN Whole((2 * v.num + Scale) \div (2 * Scale))
    ELSE IF v.kind = "empty" THEN Whole(0)
    ELSE Text("NaN")

\* What the selected cell can hold: the numbers 0 and 1, the texts "¥1", "a"
\* and "-1", or nothing.
Chars(cs) == [kind |-> "chars", chars |-> cs, num |-> 0]
SelectedValues ==
    {Whole(0), Whole(1), Empty,
     Chars(<<"Y", "1">>), Chars(<<"a">>), Chars(<<"-", "1">>)}

\* The invocations of recalculateProfitFromSelection: on the input sheet any
\* row and any selected value; one invocation with a sheet missing and one
\* on another sheet, which end before the selection is looked at.
RecalcInputs ==
    {[sheetsExist |-> TRUE, activeSheet |-> INPUT_SHEET_NAME,
      selectedRow |-> r, selectedValue |-> v] : r \in Rows, v \in SelectedValues}
    \cup {[sheetsExist |-> FALSE, activeSheet |-> INPUT_SHEET_NAME,
           selectedRow |-> 2, selectedValue |-> Whole(1)],
          [sheetsExist |-> TRUE, activeSheet |-> OTHER_SHEET_NAME,
           selectedRow |-> 2, selectedValue |-> Whole(1)]}

\* The third write aimed one column to the right.
InputOrder_WrongCell == <<"B10", "C10", "E10">>

\* The cells written, in the order of the writes, and the cells read.
InputOrder == <<"B10", "C10", "D10">>
OutputOrder == <<"P10", "Q10", "P13", "Q13">>
ResultOrder == <<COL_PROFIT_NO_REBATE + 1, COL_MARGIN_NO_REBATE + 1,
                 COL_PROFIT_WITH_REBATE + 1, COL_MARGIN_WITH_REBATE + 1>>

\* The value recalculateProfitFromSelection writes into input cell number i.
InputValue(l, i) ==
    IF i = 1 THEN Num(l.sourcePrice)
    ELSE IF i = 2 THEN Num(l.sellPrice) ELSE Num(l.shipping)

\* The local that holds output number i.
ReadValue(l, i) ==
    IF i = 1 THEN l.profitNoRebate
    ELSE IF i = 2 THEN l.marginNoRebate
    ELSE IF i = 3 THEN l.profitWithRebate ELSE l.marginWithRebate

StoreValue(l, i, v) ==
    IF i = 1 THEN [l EXCEPT !.profitNoRebate = v]
    ELSE IF i = 2 THEN [l EXCEPT !.marginNoRebate = v]
    ELSE IF i = 3 THEN [l EXCEPT !.profitWithRebate = v]
    ELSE [l EXCEPT !.marginWithRebate = v]

\* Checks that let a row without a sell price through.
RecalcError_NoSellPriceCheck(sheetsExist, activeSheet, selectedRow, sourcePrice, sellPrice) ==
    IF ~sheetsExist THEN "sheet-missing"
    ELSE IF activeSheet # INPUT_SHEET_NAME THEN "not-input-sheet"
    ELSE IF selectedRow < 2 THEN "header-row"
    ELSE IF sourcePrice.nan \/ sourcePrice.val <= 0 THEN "invalid-amount"
    ELSE ""

\* The checks of recalculateProfitFromSelection before its first write; the
\* name of the error dialog, or "" when the input is accepted.
RecalcError(sheetsExist, activeSheet, selectedRow, sourcePrice, sellPrice) ==
    IF ~sheetsExist THEN "sheet-missing"
    ELSE IF activeSheet # INPUT_SHEET_NAME THEN "not-input-sheet"
    ELSE IF selectedRow < 2 THEN "header-row"
    ELSE IF sourcePrice.nan \/ sourcePrice.val <= 0 THEN "invalid-amount"
    ELSE IF sellPrice <= 0 THEN "no-sell-price"
    ELSE ""

Recalc_Start(p, sheetsExist, activeSheet, selectedRow, selectedValue) ==
    /\ pc[p] = "idle"
    /\ UNCHANGED <<inputSheet, calcSheet, dispatched, runs, evaluated, offers,
                   selected, settingsSheet>>
    /\ LET sourcePrice == parseFloatCell(selectedValue)
           rowData == IF selectedRow \in DataRows THEN inputSheet[selectedRow]
                      ELSE [c \in Cols |-> Text("header")]
           sellPrice == OrZero(parseFloatCell(rowData[COL_SELL_PRICE + 1]))
           shipping == OrZero(parseFloatCell(rowData[COL_SHIPPING + 1]))
           err == RecalcError(sheetsExist, activeSheet, selectedRow,
                              sourcePrice, sellPrice)
       IN  IF err # "" THEN UNCHANGED recalcs /\ Finish(p, err)
           ELSE /\ recalcs < MaxRecalcs
                /\ recalcs' = recalcs + 1
                /\ Goto(p, "writeInput",
                     [NoLocal EXCEPT !.row = selectedRow, !.step = 1,
                                     !.sourcePrice = sourcePrice.val,
                                     !.sellPrice = sellPrice,
                                     !.shipping = shipping])

\* calcSheet.getRange("B10" | "C10" | "D10").setValue(...); after the third,
\* flush() and sleep(1000).
Recalc_WriteInput(p) ==
    /\ pc[p] = "writeInput"
    /\ LET i == local[p].step
       IN  /\ calcSheet' = setCalcValue(calcSheet, InputOrder[i],
                                        InputValue(local[p], i))
           /\ IF i < Len(InputOrder)
              THEN Goto(p, "writeInput", [local[p] EXCEPT !.step = i + 1])
              ELSE Goto(p, "readOutput", [local[p] EXCEPT !.step = 1])
    /\ UNCHANGED <<inputSheet, dispatched, runs, recalcs, evaluated, offers, selected, settingsSheet>>

\* calcSheet.getRange("P10" | "Q10" | "P13" | "Q13").getValue(): the value
\* the output cell shows.
Recalc_ReadOutput(p) ==
    /\ pc[p] = "readOutput"
    /\ LET i == local[p].step
           l == StoreValue(local[p], i,
                           getCalcValue(EvaluatedSheet, OutputOrder[i]))
       IN  IF i < Len(OutputOrder)
           THEN Goto(p, "readOutput", [l EXCEPT !.step = i + 1])
           ELSE Goto(p, "writeResult", [l EXCEPT !.step = 1])
    /\ UNCHANGED <<inputSheet, calcSheet, dispatched, runs, recalcs, evaluated, offers, selected, settingsSheet>>

\* inputSheet.getRange(selectedRow, COL_... + 1).setValue(Math.round(...));
\* after the fourth, the completion dialog.
Recalc_WriteResult(p) ==
    /\ pc[p] = "writeResult"
    /\ LET i == local[p].step
       IN  /\ inputSheet' = setValue(inputSheet, local[p].row, ResultOrder[i],
                                     MathRound(ReadValue(local[p], i)))
           /\ IF i < Len(ResultOrder)
              THEN Goto(p, "writeResult", [local[p] EXCEPT !.step = i + 1])
              ELSE Finish(p, "recalc-done")
    /\ UNCHANGED <<calcSheet, dispatched, runs, recalcs, evaluated, offers, selected, settingsSheet>>

----------------------------------------------------------------------------
(* Sourcing: the cheapest offer of a search (src/sourcing.py)              *)

NoOffer == [source_price_jpy |-> 0, source_shipping_jpy |-> 0, provider |-> 0]

\* An offer: the provider's position in the list, its price and its shipping.
Offers ==
    [source_price_jpy : 0..MaxPrice, source_shipping_jpy : 0..MaxShipping,
     provider : 1..MaxOffers]

\* The offer lists of a search: one offer per provider, in provider order.
OfferLists ==
    UNION {{os \in [1..n -> Offers] : \A i \in 1..n : os[i].provider = i} :
           n \in 1..MaxOffers}

\* A key that leaves the shipping out.
OfferKey_PriceOnly(o) == o.source_price_jpy

\* key=lambda o: o.source_price_jpy + o.source_shipping_jpy
OfferKey(o) == o.source_price_jpy + o.source_shipping_jpy

\* Python's min(iterable, key=...): the items are visited in order and the
\* best one so far is replaced only by an item with a strictly smaller key.
RECURSIVE MinFrom(_, _, _)
MinFrom(os, i, best) ==
    IF i > Len(os) THEN best
    ELSE MinFrom(os, i + 1,
                 IF OfferKey(os[i]) < OfferKey(best) THEN os[i] ELSE best)

min(os) == MinFrom(os, 2, os[1])

\* One search returns its cheapest option.
Sourcing_Select ==
    /\ offers # <<>>
    /\ selected' = min(offers)
    /\ UNCHANGED <<inputSheet, calcSheet, pc, local, alert, dispatched, runs,
                   recalcs, evaluated, offers, settingsSheet>>

\* The next search of the same item: the providers return the offers again.
Sourcing_Search ==
    /\ selected # NoOffer
    /\ selected' = NoOffer
    /\ UNCHANGED <<inputSheet, calcSheet, pc, local, alert, dispatched, runs,
                   recalcs, evaluated, offers, settingsSheet>>

----------------------------------------------------------------------------
(* CLAUDE.md, "Reading Calculation Results": how the run chooses between   *)
(* the sheet's result and the Python calculation.                          *)

\* read_calculation_results(max_wait_seconds=5): the four output cells as the
\* sheet shows them, or None when the wait ends without a readable result.
NoneResult ==
    [none |-> TRUE, profit_no_rebate |-> Empty, margin_no_rebate |-> Empty,
     profit_with_rebate |-> Empty, margin_with_rebate |-> Empty]
read_calculation_results(sheet, gaveUp) ==
    IF gaveUp \/ \E c \in OutputCells : getCalcValue(sheet, c).kind # "number"
    THEN NoneResult
    ELSE [none |-> FALSE,
          profit_no_rebate |-> getCalcValue(sheet, "P10"),
          margin_no_rebate |-> getCalcValue(sheet, "Q10"),
          profit_with_rebate |-> getCalcValue(sheet, "P13"),
          margin_with_rebate |-> getCalcValue(sheet, "Q13")]

\* The calc_result an execution holds in its locals.
CalcResultOf(l) ==
    [none |-> l.error = "None",
     profit_no_rebate |-> l.profitNoRebate,
     margin_no_rebate |-> l.marginNoRebate,
     profit_with_rebate |-> l.profitWithRebate,
     margin_with_rebate |-> l.marginWithRebate]

\* if calc_result and calc_result["profit_no_rebate"] != 0:
UsesSheetResult(calc_result) ==
    ~calc_result.none /\ calc_result.profit_no_rebate # Num(0)

\* calc_result = search_base_client.read_calculation_results(...)
Bridge_Read(p, gaveUp) ==
    /\ pc[p] = "idle"
    /\ LET calc_result == read_calculation_results(EvaluatedSheet, gaveUp)
       IN  Goto(p, "bridgeChoose",
                [NoLocal EXCEPT
                   !.error = IF calc_result.none THEN "None" ELSE "",
                   !.profitNoRebate = calc_result.profit_no_rebate,
                   !.marginNoRebate = calc_result.margin_no_rebate,
                   !.profitWithRebate = calc_result.profit_with_rebate,
                   !.marginWithRebate = calc_result.margin_with_rebate])
    /\ UNCHANGED <<inputSheet, calcSheet, dispatched, runs, recalcs, evaluated,
                   offers, selected, settingsSheet>>

\* The branch: the sheet's profit, or the Python calculation.
Bridge_Choose(p) ==
    /\ pc[p] = "bridgeChoose"
    /\ IF UsesSheetResult(CalcResultOf(local[p]))
       THEN Finish(p, "sheet-result")
       ELSE Finish(p, "fallback")
    /\ UNCHANGED <<inputSheet, calcSheet, dispatched, runs, recalcs, evaluated,
                   offers, selected, settingsSheet>>

----------------------------------------------------------------------------
(* runAutoResearch in its two revisions: "colA" is gas/Code.gs 30-99 (the  *)
(* keywords are A10:A of the settings sheet), "colE" is the script with    *)
(* the keywords in E4:E100, trimmed and without duplicates.                *)

AutoRevisions == {"colA", "colE"}

\* The settings sheet 設定＆キーワード is missing.
NoSheet == <<"no sheet">>

\* What a keyword cell can hold, as characters ("[" stands for 【): nothing,
\* a blank, a heading, a keyword, and a heading after a blank.
KeywordCells == {<<>>, <<" ">>, <<"[", "a">>, <<"a">>, <<" ", "[">>}
KeywordRows == 2
KeywordColumns == [1..KeywordRows -> KeywordCells]

\* String.prototype.trim()
RECURSIVE trimStart(_)
trimStart(cs) ==
    IF cs # <<>> /\ Head(cs) = " " THEN trimStart(Tail(cs)) ELSE cs
RECURSIVE trimEnd(_)
trimEnd(cs) ==
    IF cs # <<>> /\ cs[Len(cs)] = " " THEN trimEnd(SubSeq(cs, 1, Len(cs) - 1))
    ELSE cs
trim(cs) == trimEnd(trimStart(cs))

\* String.prototype.startsWith('【')
startsWithBracket(cs) == cs # <<>> /\ Head(cs) = "["

\* keywords.indexOf(kw) === -1
NotIn(kw, keywords) == \A i \in 1..Len(keywords) : keywords[i] # kw

\* The loop over E4:E100 of revision "colE": trimmed, headings dropped, no
\* keyword twice.
RECURSIVE pushKeywords(_, _, _)
pushKeywords(column, i, keywords) ==
    IF i > Len(column) THEN keywords
    ELSE LET kw == trim(column[i])
         IN  pushKeywords(column, i + 1,
                 IF kw # <<>> /\ ~startsWithBracket(kw) /\ NotIn(kw, keywords)
                 THEN Append(keywords, kw) ELSE keywords)

\* A filter that lets the headings through.
keywordsOf_KeepsHeadings(rev, column) ==
    SelectSeq(column, LAMBDA keyword : keyword # <<>>)

\* The keywords runAutoResearch finds in the column.  Revision "colA":
\* .filter(keyword => keyword && keyword.toString().trim() !== ''
\*                    && !keyword.toString().startsWith('【'))
keywordsOf(rev, column) ==
    IF rev = "colA"
    THEN SelectSeq(column, LAMBDA keyword :
             /\ keyword # <<>>
             /\ trim(keyword) # <<>>
             /\ ~startsWithBracket(keyword))
    ELSE pushKeywords(column, 1, <<>>)

\* The payload of the auto research dispatch.
AutoPayload == [event_type |-> "auto_research_request"]

\* triggerAutoResearchGitHubActions(): {success: true} exactly on a 204
\* response, {success: false, error} on any other response and on a throw.
triggerAutoResearchGitHubActions(fetch) ==
    IF fetch.threw
    THEN [success |-> FALSE, error |-> "network error: Exception"]
    ELSE IF fetch.code = HTTP_NO_CONTENT
    THEN [success |-> TRUE, error |-> ""]
    ELSE [success |-> FALSE, error |-> "HTTP status: " \o ToString(fetch.code)]

\* runAutoResearch up to the confirmation dialog: token, settings sheet and
\* keywords are checked; nothing is written.
Auto_Start(p, rev, token) ==
    /\ pc[p] = "idle"
    /\ UNCHANGED <<inputSheet, calcSheet, dispatched, runs, recalcs, evaluated,
                   offers, selected, settingsSheet>>
    /\ IF token = TOKEN_PLACEHOLDER THEN Finish(p, "no-token")
       ELSE IF settingsSheet = NoSheet THEN Finish(p, "no-settings-sheet")
       ELSE IF Len(keywordsOf(rev, settingsSheet)) = 0
            THEN Finish(p, "no-keywords")
       ELSE Goto(p, "autoConfirm", [NoLocal EXCEPT !.rev = rev])

\* The confirmation dialog returns.
Auto_Confirm(p, ok) ==
    /\ pc[p] = "autoConfirm"
    /\ UNCHANGED <<inputSheet, calcSheet, dispatched, runs, recalcs, evaluated,
                   offers, selected, settingsSheet>>
    /\ IF ok THEN Goto(p, "autoTrigger", local[p])
       ELSE Finish(p, "cancelled")

\* triggerAutoResearchGitHubActions(): attempt counts the requests this
\* execution has sent.
Auto_Trigger(p, fetch) ==
    /\ pc[p] = "autoTrigger"
    /\ LET result == triggerAutoResearchGitHubActions(fetch)
       IN  /\ dispatched' = IF fetch.threw THEN dispatched
                            ELSE dispatched \cup {AutoPayload}
           /\ Goto(p, "autoReport",
                   [local[p] EXCEPT !.attempt = @ + 1, !.error = result.error])
    /\ UNCHANGED <<inputSheet, calcSheet, runs, recalcs, evaluated, offers,
                   selected, settingsSheet>>

\* The dialog on the result: started, or the cause of the failure.
Auto_Report(p) ==
    /\ pc[p] = "autoReport"
    /\ IF local[p].error = "" THEN Finish(p, "auto-started")
       ELSE Finish(p, "trigger-failed")
    /\ UNCHANGED <<inputSheet, calcSheet, dispatched, runs, recalcs, evaluated,
                   offers, selected, settingsSheet>>

----------------------------------------------------------------------------
(* Initial states *)

BlankRow == [c \in Cols |-> Empty]

\* The input sheet as the user filled it in: the first data row carries an
\* eBay URL; rows 2 and 3 have a sell price (P) and a shipping (Q): $2 and $1
\* on row 2, $1 and $0 on row 3; the rows below are blank.  Nothing is
\* researched or calculated yet.
UrlRows == {2}
PricedRows == {2, 3}
SellPriceOf(r) == IF r \in PricedRows THEN Whole(4 - r) ELSE Empty
ShippingOf(r) == IF r \in PricedRows THEN Whole(3 - r) ELSE Empty

\* The settings sheet with one keyword and one heading.
InitSettingsSheet == <<<<"[", "a">>, <<"a">>>>

InitInputSheet ==
    [r \in DataRows |->
        [BlankRow EXCEPT ![UrlCol] = IF r \in UrlRows THEN Text(EbayUrlOf(r))
                                     ELSE Empty,
                         ![COL_SELL_PRICE + 1] = SellPriceOf(r),
                         ![COL_SHIPPING + 1] = ShippingOf(r)]]

InitCalcSheet ==
    [c \in CalcCells |-> IF c \in InputCells THEN Whole(0) ELSE Formula]

Init ==
    /\ inputSheet = InitInputSheet
    /\ calcSheet = InitCalcSheet
    /\ pc = [p \in Procs |-> "idle"]
    /\ local = [p \in Procs |-> NoLocal]
    /\ alert = "none"
    /\ dispatched = {}
    /\ runs = [r \in DataRows |-> 0]
    /\ recalcs = 0
    /\ evaluated = InputsOf(InitCalcSheet)
    /\ offers = <<>>
    /\ selected = NoOffer
    /\ settingsSheet = InitSettingsSheet

----------------------------------------------------------------------------
(* Specifications: one per script, each with the dispatched run where the  *)
(* script dispatches one.                                                  *)

NextClick ==
    \/ \E p \in Procs, s \in SheetNames, r \in Rows : Click_Start(p, s, r)
    \/ \E p \in Procs, ok \in BOOLEAN : Click_Confirm(p, ok)
    \/ \E p \in Procs : Click_SetProcessing(p)
    \/ \E p \in Procs, cfg \in BOOLEAN, f \in FetchOutcomes, now \in Timestamps :
          Click_Trigger(p, cfg, f, now)
    \/ \E p \in Procs : Click_Sleep(p)
    \/ \E p \in Procs : Click_Poll(p)
    \/ \E p \in Procs : Click_Report(p)
    \/ \E p \in Procs : Click_Throw(p)
    \/ \E p \in Procs : Click_Catch(p)
    \/ \E r \in DataRows, o \in RunnerOutcomes : Runner(r, o)

SpecClick == Init /\ [][NextClick]_vars

NextRun ==
    \/ \E p \in Procs, rev \in Revisions, t \in Tokens, r \in Rows :
          Run_Start(p, rev, t, r)
    \/ \E p \in Procs, f \in FetchOutcomes : Run_Trigger(p, f)
    \/ \E p \in Procs : Run_SetMemo(p)
    \/ \E r \in DataRows, o \in RunnerOutcomes : Runner(r, o)

SpecRun == Init /\ [][NextRun]_vars

\* An execution that has set the status runs on to its end, and the run of
\* an accepted dispatch reports its end.
RunStep(p) == (\E f \in FetchOutcomes : Run_Trigger(p, f)) \/ Run_SetMemo(p)
RunnerEnds(r) == \E o \in RunnerOutcomes \ {"started"} : Runner(r, o)

SpecRunFair ==
    /\ SpecRun
    /\ \A p \in Procs : WF_vars(RunStep(p))
    /\ \A r \in DataRows : WF_vars(RunnerEnds(r))

NextRecalc ==
    \/ \E p \in Procs, in \in RecalcInputs :
          Recalc_Start(p, in.sheetsExist, in.activeSheet, in.selectedRow,
                       in.selectedValue)
    \/ \E p \in Procs : Recalc_WriteInput(p)
    \/ \E p \in Procs : Recalc_ReadOutput(p)
    \/ \E p \in Procs : Recalc_WriteResult(p)
    \/ Sheet_Recalculate

SpecRecalc == Init /\ [][NextRecalc]_vars

\* The search on every offer list within the bounds.
InitSourcing ==
    /\ inputSheet = InitInputSheet
    /\ calcSheet = InitCalcSheet
    /\ pc = [p \in Procs |-> "idle"]
    /\ local = [p \in Procs |-> NoLocal]
    /\ alert = "none"
    /\ dispatched = {}
    /\ runs = [r \in DataRows |-> 0]
    /\ recalcs = 0
    /\ evaluated = InputsOf(InitCalcSheet)
    /\ offers \in OfferLists
    /\ selected = NoOffer
    /\ settingsSheet = InitSettingsSheet

NextSourcing == Sourcing_Select \/ Sourcing_Search

SpecSourcing == InitSourcing /\ [][NextSourcing]_vars

\* runAutoResearch on every settings sheet within the bounds, and without
\* the sheet.
InitAuto ==
    /\ inputSheet = InitInputSheet
    /\ calcSheet = InitCalcSheet
    /\ pc = [p \in Procs |-> "idle"]
    /\ local = [p \in Procs |-> NoLocal]
    /\ alert = "none"
    /\ dispatched = {}
    /\ runs = [r \in DataRows |-> 0]
    /\ recalcs = 0
    /\ evaluated = InputsOf(InitCalcSheet)
    /\ offers = <<>>
    /\ selected = NoOffer
    /\ settingsSheet \in KeywordColumns \cup {NoSheet}

NextAuto ==
    \/ \E p \in Procs, rev \in AutoRevisions, t \in Tokens : Auto_Start(p, rev, t)
    \/ \E p \in Procs, ok \in BOOLEAN : Auto_Confirm(p, ok)
    \/ \E p \in Procs, f \in FetchOutcomes : Auto_Trigger(p, f)
    \/ \E p \in Procs : Auto_Report(p)

SpecAuto == InitAuto /\ [][NextAuto]_vars

\* The calls of the trigger functions: every execution stands right before
\* its call (of triggerGitHubActions in one of its three versions, or of
\* triggerAutoResearchGitHubActions), the row-research ones on the row with
\* the URL, whose status they have set to processing.
TriggerPositions ==
    {[pc |-> "trigger", rev |-> ""]}
    \cup {[pc |-> "runTrigger", rev |-> rev] : rev \in Revisions}
    \cup {[pc |-> "autoTrigger", rev |-> rev] : rev \in AutoRevisions}

InitTrigger ==
    /\ \E pos \in [Procs -> TriggerPositions], r \in UrlRows :
          /\ pc = [p \in Procs |-> pos[p].pc]
          /\ local = [p \in Procs |->
                IF pos[p].pc = "autoTrigger"
                THEN [NoLocal EXCEPT !.rev = pos[p].rev]
                ELSE [NoLocal EXCEPT !.rev = pos[p].rev, !.row = r,
                                     !.ebayUrl = Text(EbayUrlOf(r))]]
          /\ inputSheet =
                [InitInputSheet EXCEPT
                   ![r][StatusColAF] =
                       IF \E p \in Procs : pos[p].pc = "trigger"
                       THEN Text(ProcessingAF) ELSE Empty,
                   ![r][statusCol] =
                       IF \E p \in Procs : pos[p].pc = "runTrigger"
                       THEN Text(ProcessingS) ELSE Empty]
    /\ calcSheet = InitCalcSheet
    /\ alert = "none"
    /\ dispatched = {}
    /\ runs = [r \in DataRows |-> 0]
    /\ recalcs = 0
    /\ evaluated = InputsOf(InitCalcSheet)
    /\ offers = <<>>
    /\ selected = NoOffer
    /\ settingsSheet = InitSettingsSheet

\* Each call, and what its caller does with the result until it returns or
\* starts to wait for the run.
NextTrigger ==
    \/ \E p \in Procs, cfg \in BOOLEAN, f \in FetchOutcomes, now \in Timestamps :
          Click_Trigger(p, cfg, f, now)
    \/ \E p \in Procs, f \in FetchOutcomes : Run_Trigger(p, f)
    \/ \E p \in Procs : Run_SetMemo(p)
    \/ \E p \in Procs, f \in FetchOutcomes : Auto_Trigger(p, f)
    \/ \E p \in Procs : Auto_Report(p)

SpecTrigger == InitTrigger /\ [][NextTrigger]_vars

\* The run reads the calculation sheet for every combination of inputs
\* within these sets (source price, sell price, shipping, in 1/Scale units).
BridgeSourcePrices == {0, 1, 10}
BridgeSellPrices == {0, 2, 8}
BridgeShippings == {0, 1}

InitBridge ==
    /\ inputSheet = InitInputSheet
    /\ \E b \in BridgeSourcePrices, c \in BridgeSellPrices, d \in BridgeShippings :
          calcSheet = [InitCalcSheet EXCEPT !["B10"] = Num(b), !["C10"] = Num(c),
                                            !["D10"] = Num(d)]
    /\ pc = [p \in Procs |-> "idle"]
    /\ local = [p \in Procs |-> NoLocal]
    /\ alert = "none"
    /\ dispatched = {}
    /\ runs = [r \in DataRows |-> 0]
    /\ recalcs = 0
    /\ evaluated = InputsOf(calcSheet)
    /\ offers = <<>>
    /\ selected = NoOffer
    /\ settingsSheet = InitSettingsSheet

NextBridge ==
    \/ \E p \in Procs, gaveUp \in BOOLEAN : Bridge_Read(p, gaveUp)
    \/ \E p \in Procs : Bridge_Choose(p)

SpecBridge == InitBridge /\ [][NextBridge]_vars

\* The row-research entry points of both scripts side by side: one execution
\* of onResearchButtonClick next to one of runResearchForSelectedRow, and the
\* dispatched runs.
ClickProc == "e1"
RunProc == "e2"
NextEntry ==
    \/ \E s \in SheetNames, r \in Rows : Click_Start(ClickProc, s, r)
    \/ \E ok \in BOOLEAN : Click_Confirm(ClickProc, ok)
    \/ Click_SetProcessing(ClickProc)
    \/ \E cfg \in BOOLEAN, f \in FetchOutcomes, now \in Timestamps :
          Click_Trigger(ClickProc, cfg, f, now)
    \/ Click_Sleep(ClickProc)
    \/ Click_Poll(ClickProc)
    \/ Click_Report(ClickProc)
    \/ Click_Throw(ClickProc)
    \/ Click_Catch(ClickProc)
    \/ \E rev \in Revisions, t \in Tokens, r \in Rows :
          Run_Start(RunProc, rev, t, r)
    \/ \E f \in FetchOutcomes : Run_Trigger(RunProc, f)
    \/ Run_SetMemo(RunProc)
    \/ \E r \in DataRows, o \in RunnerOutcomes : Runner(r, o)

SpecEntry == Init /\ [][NextEntry]_vars

Next == NextClick \/ NextRun \/ NextRecalc

Spec == Init /\ [][Next]_vars

----------------------------------------------------------------------------
(* Properties *)

StatusAF(r) == inputSheet[r][StatusColAF]
StatusS(r) == inputSheet[r][statusCol]
HasUrl(r) == Truthy(inputSheet[r][UrlCol])
Terminal == {Text(NeedsReview), Text(ErrorStatus)}

\* A step of a script execution (the dispatched run leaves these alone).
ClientStep == <<pc, local, alert>>' # <<pc, local, alert>>

\* C1: whenever onResearchButtonClick is invoked on a row whose status cell
\* holds the processing marker, it returns at once: it writes no cell, sends
\* no dispatch and starts no run.
C1_ProcessingRowRejected ==
    [][\A p \in Procs, s \in SheetNames, r \in DataRows :
          (Click_Start(p, s, r) /\ StatusAF(r) = Text(ProcessingAF))
          => /\ pc'[p] = "idle"
             /\ UNCHANGED <<inputSheet, dispatched, runs>>]_vars

\* C1 witness: a click was rejected on a row that is processing.
C1_Witness ==
    /\ alert = "already-processing"
    /\ \E r \in DataRows : StatusAF(r) = Text(ProcessingAF)

\* C2: whenever runResearchForSelectedRow is invoked with a configured token
\* on a data row that has a URL and whose status cell holds the processing
\* marker, the invocation is rejected: it ends without going on to the
\* dispatch.
C2_ProcessingRowRejectedByRun ==
    [][\A p \in Procs, rev \in Revisions, r \in DataRows :
          (/\ Run_Start(p, rev, GITHUB_TOKEN, r)
           /\ HasUrl(r)
           /\ StatusS(r) = Text(ProcessingS))
          => /\ pc'[p] = "idle"
             /\ UNCHANGED <<dispatched, runs>>]_vars

\* C3: no row ever has two accepted dispatches pending: of the executions of
\* onResearchButtonClick that found the row not processing, at most one
\* sets it to processing and dispatches.
C3_RowNeverDoubleRun ==
    \A r \in DataRows : runs[r] <= 1

\* C4: once a row's status is done or error, no step of a client script
\* changes the row's status cell.
C4_TerminalStatusFinal ==
    [][\A r \in DataRows :
          (ClientStep /\ StatusAF(r) \in Terminal)
          => StatusAF(r)' = StatusAF(r)]_vars

\* An execution is between its first write of an input cell and its last
\* read of an output cell.
InCalculation(p) ==
    \/ pc[p] = "writeInput" /\ local[p].step > 1
    \/ pc[p] = "readOutput"

\* C5: at most one execution at a time is between its first write of an
\* input cell and its last read of an output cell of the calculation sheet.
C5_CalcSheetMutualExclusion ==
    Cardinality({p \in Procs : InCalculation(p)}) <= 1

\* The calculation sheet holding exactly the inputs of execution l.
OwnCalcSheet(l) ==
    [c \in CalcCells |->
        IF c = "B10" THEN Num(l.sourcePrice)
        ELSE IF c = "C10" THEN Num(l.sellPrice)
        ELSE IF c = "D10" THEN Num(l.shipping)
        ELSE Formula]

\* C6: a value an execution reads from a recalculated output cell, and goes
\* on to write to its row, is the output of the calculation sheet for that
\* row's own source price, sell price and shipping: the inputs of another
\* execution never show in it.
C6_OutputsFromOwnInputs ==
    [][\A p \in Procs :
          (Recalc_ReadOutput(p) /\ evaluated = InputsOf(calcSheet))
          => LET cell == OutputOrder[local[p].step]
             IN  getCalcValue(EvaluatedSheet, cell)
                     = getCalcValue(OwnCalcSheet(local[p]), cell)]_vars

\* C7: every cell of the calculation sheet other than B10, C10 and D10 holds
\* its formula in every reachable state: no execution writes E10, J10 or an
\* output cell.
C7_FormulaCellsNeverWritten ==
    \A c \in CalcCells \ InputCells : calcSheet[c] = Formula

\* C7 witness: an execution has written its three inputs and read the
\* outputs.
C7_Witness ==
    \E p \in Procs :
        /\ pc[p] = "writeResult"
        /\ calcSheet["B10"] = Num(local[p].sourcePrice)
        /\ calcSheet["C10"] = Num(local[p].sellPrice)
        /\ calcSheet["D10"] = Num(local[p].shipping)

\* The four outputs an execution has read are all zero.
ReadAllZero(l) == \A i \in 1..Len(OutputOrder) : ReadValue(l, i) = Num(0)

\* C8: a result read as profit 0 and margin 0 for both rebate variants is
\* never written to the row.
C8_ZeroResultNotPersisted ==
    \A p \in Procs :
        ~(pc[p] = "writeResult" /\ local[p].step > 1 /\ ReadAllZero(local[p]))

\* C9: no state shows a row with some but not all of the four result cells
\* of the current run written.
C9_ResultNeverPartial ==
    \A p \in Procs :
        pc[p] = "writeResult" => local[p].step \notin 2..Len(ResultOrder)

\* A cell holds a text that is not empty.
HasCause(v) == v.kind = "text" /\ v.txt # ""

\* C10: a row whose status cell holds the error marker has a cause in its
\* log cell (AF with AH) or memo cell (S with T).
C10_ErrorHasCause ==
    \A r \in DataRows :
        /\ StatusAF(r) = Text(ErrorStatus) => HasCause(inputSheet[r][LogColAH])
        /\ StatusS(r) = Text(ErrorStatus) => HasCause(inputSheet[r][memoCol])

\* The status an execution in waitForCompletion reads in its next round.
PolledStatus(p) == getValue(inputSheet, local[p].row, StatusColAF)

\* C11: waitForCompletion terminates: every round is one read of the status,
\* the rounds of an execution are numbered 1, 2, ... up to MAX_ATTEMPTS at
\* most, and a further round follows only a read that showed the processing
\* marker.
C11_PollTerminates ==
    [][\A p \in Procs :
          Click_Poll(p) =>
              /\ local[p].attempt \in 1..MAX_ATTEMPTS
              /\ pc'[p] = "poll" =>
                     /\ PolledStatus(p) = Text(ProcessingAF)
                     /\ local'[p].attempt = local[p].attempt + 1]_vars

\* C11 witness: an execution is about to make its last read, the row still
\* processing.
C11_Witness ==
    \E p \in Procs :
        /\ pc[p] = "poll"
        /\ local[p].attempt = MAX_ATTEMPTS
        /\ PolledStatus(p) = Text(ProcessingAF)

C13_NoRowProcessingForever ==
    \A r \in DataRows :
        /\ (StatusS(r) = Text(ProcessingS)) ~> (StatusS(r) # Text(ProcessingS))
        /\ (StatusAF(r) = Text(ProcessingAF)) ~> (StatusAF(r) # Text(ProcessingAF))

\* The landed cost of an offer: unit price plus shipping.
LandedCost(o) == o.source_price_jpy + o.source_shipping_jpy

\* C14: the offer a search returns is one of the offers, no offer has a
\* smaller landed cost, and every offer listed before it has a larger one.
C14_SelectsCheapestFirst ==
    selected # NoOffer =>
        \E i \in 1..Len(offers) :
            /\ selected = offers[i]
            /\ \A j \in 1..Len(offers) : LandedCost(offers[j]) >= LandedCost(selected)
            /\ \A j \in 1..(i - 1) : LandedCost(offers[j]) > LandedCost(selected)

\* C14 witness: several offers share the minimum, one of them with a higher
\* price and a lower shipping than the other, and the search has returned.
C14_Witness ==
    /\ selected # NoOffer
    /\ \E i, j \in 1..Len(offers) :
          /\ i < j
          /\ LandedCost(offers[i]) = LandedCost(selected)
          /\ LandedCost(offers[j]) = LandedCost(selected)
          /\ offers[i].source_price_jpy > offers[j].source_price_jpy
    /\ \E k \in 1..Len(offers) : LandedCost(offers[k]) > LandedCost(selected)

\* The columns the scripts treat as the row's status, and the values a
\* status cell can hold.
StatusColumns == {statusCol, StatusColAF, statusColumn}
StatusValues ==
    {Empty} \cup {Text(st) : st \in {ProcessingAF, ProcessingS, NeedsReview,
                                     ErrorStatus, OkStatus, ExcludedStatus}}

\* C15: in whichever column an operation keeps the row's status, no operation
\* writes anything but a status: a cell of a status column never holds a
\* profit, a margin or a memo text.  (The scripts keep the status in three
\* different columns: S, AF and V.)
C15_StableSchema ==
    \A r \in DataRows, c \in StatusColumns \cap Cols :
        inputSheet[r][c] \in StatusValues

\* The output cells show values of inputs the sheet no longer holds.
OutputsStale == evaluated # InputsOf(calcSheet)

\* C16: an execution whose wait is over and that reads an output cell which
\* has not been recalculated for the inputs on the sheet does not go on to
\* write the values it read to its row.
C16_StaleReadNotPersisted ==
    [][\A p \in Procs :
          (Recalc_ReadOutput(p) /\ OutputsStale) => pc'[p] # "writeResult"]_vars

\* A whole number.
IsWhole(v) == v.kind = "number" /\ v.num % Scale = 0

\* C18: a result cell of a row is empty or holds a whole number.
C18_ResultsAreWhole ==
    \A r \in DataRows, i \in 1..Len(ResultOrder) :
        LET v == inputSheet[r][ResultOrder[i]]
        IN  v = Empty \/ IsWhole(v)

\* The fields of a trigger input: item reference, row key, submission time
\* and correlation id.
TriggerFields == {"ebay_url", "row_number", "timestamp", "correlation_id"}

\* C17: every dispatch that was posted carries all fields of a trigger input.
C17_DispatchCarriesCorrelation ==
    \A d \in dispatched : TriggerFields \subseteq DOMAIN d

\* C19: an invocation on a data row whose URL cell is empty leaves the error
\* marker in the row's status cell.
C19_MissingUrlIsError ==
    [][\A p \in Procs, rev \in Revisions, r \in DataRows :
          (Run_Start(p, rev, GITHUB_TOKEN, r) /\ ~HasUrl(r))
          => StatusS(r)' = Text(ErrorStatus)]_vars

----------------------------------------------------------------------------
\* C21: when a row-research entry point has set a row to processing and the
\* dispatch then does not succeed (non-204 response, missing configuration,
\* exception), the execution leaves the row's status at error: the step in
\* which the dispatch fails writes error into the status cell of its row, and
\* what the execution still does before it returns (the memo write) does not
\* touch that cell.
C21_FailedDispatchLeavesError ==
    [][\A p \in Procs, r \in DataRows :
          local[p].row = r =>
            /\ (pc[p] = "trigger" /\ pc'[p] = "idle")
                  => StatusAF(r)' = Text(ErrorStatus)
            /\ (pc[p] = "catch" /\ pc'[p] = "idle")
                  => StatusAF(r)' = Text(ErrorStatus)
            /\ (pc[p] = "runTrigger" /\ ~(pc'[p] = "idle" /\ alert' = "started")
                  /\ pc'[p] # "runTrigger")
                  => StatusS(r)' = Text(ErrorStatus)
            /\ (pc[p] = "runMemo" /\ pc'[p] = "idle")
                  => StatusS(r)' = StatusS(r)]_vars

\* Both scripts have failed to dispatch for the same row and have returned.
C21_Witness ==
    /\ alert = "trigger-failed"
    /\ \A p \in Procs : pc[p] = "idle"
    /\ \E r \in DataRows : /\ StatusAF(r) = Text(ErrorStatus)
                            /\ StatusS(r) = Text(ErrorStatus)
                            /\ dispatched = {}

----------------------------------------------------------------------------
\* A result is valid: it is there, its four cells are numbers, and profit and
\* margin are not zero in both rebate variants.
ValidResult(calc_result) ==
    /\ ~calc_result.none
    /\ \A v \in {calc_result.profit_no_rebate, calc_result.margin_no_rebate,
                 calc_result.profit_with_rebate, calc_result.margin_with_rebate} :
          v.kind = "number"
    /\ ~(/\ calc_result.profit_no_rebate = Num(0)
         /\ calc_result.margin_no_rebate = Num(0)
         /\ calc_result.profit_with_rebate = Num(0)
         /\ calc_result.margin_with_rebate = Num(0))

\* C22: whenever the result read from the calculation sheet is valid, the sheet
\* result is used and the fallback is not.
C22_ValidResultUsed ==
    [][\A p \in Procs :
          (Bridge_Choose(p) /\ ValidResult(CalcResultOf(local[p])))
              => alert' = "sheet-result"]_vars

----------------------------------------------------------------------------
\* The error dialogs of recalculateProfitFromSelection.
RecalcErrors == {"sheet-missing", "not-input-sheet", "header-row",
                 "invalid-amount", "no-sell-price"}

\* The input is one the script has to reject: a sheet is missing, the active
\* sheet is not the input sheet, the header row is selected, the selected
\* value is not a positive number, or the row's sell price is not positive.
MustReject(in) ==
    LET sourcePrice == parseFloatCell(in.selectedValue)
        sellPrice == IF in.selectedRow \in DataRows
                     THEN OrZero(parseFloatCell(
                              inputSheet[in.selectedRow][COL_SELL_PRICE + 1]))
                     ELSE 0
    IN  \/ ~in.sheetsExist
        \/ in.activeSheet # INPUT_SHEET_NAME
        \/ in.selectedRow = 1
        \/ sourcePrice.nan \/ sourcePrice.val <= 0
        \/ sellPrice <= 0

\* An execution has just ended with one of the error dialogs and the step
\* wrote no cell of the calculation sheet or of the input sheet.
RejectedCleanly(p) ==
    /\ pc'[p] = "idle"
    /\ alert' \in RecalcErrors
    /\ UNCHANGED <<inputSheet, calcSheet, recalcs>>

\* C23: when recalculateProfitFromSelection is started on an input it has to
\* reject, the execution ends in that step with one of its error dialogs and
\* no cell of the calculation sheet or of the input sheet is written; put the
\* other way round, a step that is not such an end is not a start of the
\* script on an input that has to be rejected.
C23_RejectedInputWritesNothing ==
    [][\A p \in Procs :
          (pc[p] = "idle" /\ ~RejectedCleanly(p))
          => \A in \in RecalcInputs :
                MustReject(in)
                => ~Recalc_Start(p, in.sheetsExist, in.activeSheet,
                                 in.selectedRow, in.selectedValue)]_vars

\* A recalculation was rejected for the missing sell price while the sheets
\* still hold what an earlier recalculation wrote.
C23_Witness ==
    /\ alert = "no-sell-price"
    /\ recalcs > 0
    /\ \A p \in Procs : pc[p] = "idle"

----------------------------------------------------------------------------
\* C24: every read of waitForCompletion comes after the sleep of its round,
\* so the first one after one full interval; the reads are numbered 1 to
\* MAX_ATTEMPTS; the function returns true (the caller goes on to report)
\* exactly on a read that shows something other than the processing marker,
\* and false (the caller shows the timeout dialog) exactly on read number
\* MAX_ATTEMPTS showing the processing marker, every earlier read having
\* shown it too since only such a read is followed by another round.
C24_PollResult ==
    [][\A p \in Procs :
          Click_Poll(p) =>
            /\ local[p].step = 1
            /\ local[p].attempt \in 1..MAX_ATTEMPTS
            /\ pc'[p] = "report" <=> PolledStatus(p) # Text(ProcessingAF)
            /\ (pc'[p] = "idle" /\ alert' = "timeout")
                  <=> (/\ PolledStatus(p) = Text(ProcessingAF)
                       /\ local[p].attempt = MAX_ATTEMPTS)
            /\ pc'[p] \in {"report", "idle", "poll"}
            /\ pc'[p] = "poll" => /\ local'[p].attempt = local[p].attempt + 1
                                  /\ local'[p].step = 0]_vars

\* An execution has slept through the interval of its last round and is about
\* to make read number MAX_ATTEMPTS.
C24_Witness ==
    \E p \in Procs :
        /\ pc[p] = "poll"
        /\ local[p].attempt = MAX_ATTEMPTS
        /\ local[p].step = 1

----------------------------------------------------------------------------
\* A step of execution p.
StepOf(p) == pc'[p] # pc[p] \/ local'[p] # local[p]

\* The dispatch of execution p has succeeded: it is polling or reporting, or
\* handling an exception raised there.
DispatchSucceeded(p) ==
    pc[p] \in {"poll", "report", "catch"} /\ local[p].attempt >= 1

\* C25: in onResearchButtonClick, once the dispatch has succeeded no step of
\* the execution writes the row's status cell, whatever path it takes.
C25_ClientSilentAfterDispatch ==
    [][\A p \in Procs, r \in DataRows :
          (DispatchSucceeded(p) /\ local[p].row = r /\ StepOf(p))
          => StatusAF(r)' = StatusAF(r)]_vars

----------------------------------------------------------------------------
\* Execution p arrives at its call of triggerGitHubActions.
ArrivesAt(p, position) == pc[p] # position /\ pc'[p] = position

\* C26: an execution arrives at its dispatch only by the step that writes the
\* processing marker into the status cell of its row, and that step sends
\* nothing; every dispatch that is sent is sent by an execution at that
\* position, for the row it holds, and carries that row's number and URL.
C26_ProcessingBeforeDispatch ==
    [][/\ \A p \in Procs :
            /\ ArrivesAt(p, "trigger")
                 => /\ \E r \in DataRows :
                         /\ local'[p].row = r
                         /\ StatusAF(r)' = Text(ProcessingAF)
                    /\ UNCHANGED dispatched
            /\ ArrivesAt(p, "runTrigger")
                 => /\ \E r \in DataRows :
                         /\ local'[p].row = r
                         /\ StatusS(r)' = Text(ProcessingS)
                    /\ UNCHANGED dispatched
       /\ dispatched' # dispatched
            => \E p \in Procs, d \in dispatched' :
                  /\ pc[p] \in {"trigger", "runTrigger"}
                  /\ StepOf(p)
                  /\ dispatched' = dispatched \cup {d}
                  /\ d.row_number = local[p].row
                  /\ Text(d.ebay_url) = getValue(inputSheet, local[p].row, UrlCol)
      ]_vars

\* Both scripts have dispatched for a row that both have set to processing.
C26_Witness ==
    \E r \in DataRows :
        /\ Payload(Text(EbayUrlOf(r)), r) \in dispatched
        /\ \E now \in Timestamps :
              PayloadProps(Text(EbayUrlOf(r)), r, now) \in dispatched
        /\ StatusS(r) = Text(ProcessingS)
        /\ StatusAF(r) = Text(ProcessingAF)

----------------------------------------------------------------------------
\* The settings sheet has a keyword cell that is neither blank nor a heading.
HasKeyword ==
    /\ settingsSheet # NoSheet
    /\ \E i \in 1..Len(settingsSheet) :
          trim(settingsSheet[i]) # <<>> /\ ~startsWithBracket(settingsSheet[i])

\* C29: runAutoResearch writes no cell of any sheet; it asks for confirmation
\* only with a configured token, an existing settings sheet and a keyword
\* left after filtering; it sends a request only after the user answered OK,
\* the request is the auto_research_request dispatch, and an execution sends
\* one request at most.
C29_AutoResearchDispatch ==
    [][/\ UNCHANGED <<inputSheet, calcSheet, settingsSheet>>
       /\ \A p \in Procs :
            /\ ArrivesAt(p, "autoConfirm")
                 => /\ pc[p] = "idle"
                    /\ HasKeyword
                    /\ \A rev \in AutoRevisions :
                          ~Auto_Start(p, rev, TOKEN_PLACEHOLDER)
                    /\ UNCHANGED dispatched
            /\ ArrivesAt(p, "autoTrigger")
                 => /\ pc[p] = "autoConfirm"
                    /\ ~Auto_Confirm(p, FALSE)
                    /\ UNCHANGED dispatched
            /\ (pc[p] = "autoTrigger" /\ StepOf(p))
                 => /\ local[p].attempt = 0
                    /\ local'[p].attempt = 1
                    /\ pc'[p] = "autoReport"
            /\ (pc[p] = "autoReport" /\ StepOf(p))
                 => pc'[p] = "idle" /\ UNCHANGED dispatched
       /\ dispatched' # dispatched
            => /\ dispatched' = dispatched \cup {AutoPayload}
               /\ \E p \in Procs : pc[p] = "autoTrigger" /\ StepOf(p)
      ]_vars

\* An execution has dispatched from a settings sheet that holds a heading and
\* a keyword, and has reported the start.
C29_Witness ==
    /\ alert = "auto-started"
    /\ AutoPayload \in dispatched
    /\ settingsSheet # NoSheet
    /\ \E i, j \in 1..Len(settingsSheet) :
          startsWithBracket(settingsSheet[i]) /\ settingsSheet[j] = <<"a">>

----------------------------------------------------------------------------
\* The request was answered with 204.
Answered204(fetch) == ~fetch.threw /\ fetch.code = 204

\* C27: the trigger functions report success exactly when the request is
\* answered with 204; every other answer and every exception of the request
\* comes back to the caller as a failure value: the caller goes on as on
\* success (it polls, or reports the start) exactly on 204, and on every
\* other outcome it goes on with the failure in hand, never into an
\* exception.
C27_SuccessExactlyOn204 ==
    [][\A p \in Procs, f \in FetchOutcomes :
          /\ \A cfg \in BOOLEAN, now \in Timestamps :
                Click_Trigger(p, cfg, f, now)
                => /\ pc'[p] = "poll" <=> (cfg /\ Answered204(f))
                   /\ pc'[p] # "poll"
                        => pc'[p] = "idle" /\ alert' = "trigger-failed"
          /\ Run_Trigger(p, f)
                => /\ (pc'[p] = "idle" /\ alert' = "started") <=> Answered204(f)
                   /\ ~Answered204(f)
                        => \/ pc'[p] = "idle" /\ alert' = "trigger-failed"
                           \/ pc'[p] = "runMemo" /\ local'[p].error # ""
          /\ Auto_Trigger(p, f)
                => /\ pc'[p] = "autoReport"
                   /\ local'[p].error = "" <=> Answered204(f)]_vars

\* One execution holds the failure value of a 404 answer while another
\* holds the failure value of a request that threw.
C27_Witness ==
    \E p, q \in Procs :
        /\ pc[p] = "runMemo"
        /\ local[p].error = "HTTP status: 404"
        /\ pc[q] = "autoReport"
        /\ local[q].error = "network error: Exception"

----------------------------------------------------------------------------
\* Execution p has just ended and the step wrote no cell of the input sheet
\* and sent no dispatch.
StoppedCleanly(p) ==
    /\ pc'[p] = "idle"
    /\ UNCHANGED <<inputSheet, dispatched, runs>>

\* The preconditions onResearchButtonClick has to stop at before its dialog.
ClickMustStop(sheetName, row) ==
    \/ sheetName # INPUT_SHEET_NAME
    \/ row = 1
    \/ row \in DataRows /\ getValue(inputSheet, row, UrlCol) = Empty

\* The preconditions runResearchForSelectedRow has to stop at; the token is
\* looked at by the revision that has the check.
RunMustStop(rev, token, activeRow) ==
    \/ activeRow = 1
    \/ rev = "result" /\ token = TOKEN_PLACEHOLDER
    \/ activeRow \in DataRows /\ getValue(inputSheet, activeRow, UrlCol) = Empty

\* C28: a row-research entry point started on a header row, on a row without
\* URL, with the placeholder token, or (onResearchButtonClick) on another
\* sheet, and one whose confirmation is declined, ends in that step, writes
\* no cell of the input sheet (so neither status nor memo) and sends no
\* dispatch; put the other way round, a step that is not such an end is not
\* the step of an entry point that has to stop.
C28_PreconditionStopWritesNothing ==
    [][\A p \in Procs :
          /\ (pc[p] = "idle" /\ ~StoppedCleanly(p))
                => /\ \A s \in SheetNames, r \in Rows :
                         ClickMustStop(s, r) => ~Click_Start(p, s, r)
                   /\ \A rev \in Revisions, t \in Tokens, r \in Rows :
                         RunMustStop(rev, t, r) => ~Run_Start(p, rev, t, r)
          /\ (pc[p] = "confirm" /\ ~StoppedCleanly(p))
                => ~Click_Confirm(p, FALSE)]_vars

\* The user has declined to research again a row that is done: the status
\* stays.
C28_Witness ==
    /\ alert = "cancelled"
    /\ \A p \in Procs : pc[p] = "idle"
    /\ \E r \in DataRows : StatusAF(r) = Text(NeedsReview)

====
